---------------------------- MODULE Spec2Model ----------------------------
(***************************************************************************)
(* The WhatsApp document gateway: an Express server that receives Cloud    *)
(* API webhooks, records each inbound document/image in the FileModel      *)
(* collection (MongoDB, TTL index on createdAt), replies with a 4-digit    *)
(* PIN and streams the media back through /download/:pin or                *)
(* /api/proxy/:mediaId.                                                    *)
(*                                                                         *)
(* The repository holds several copies of the server.  The variable        *)
(* `variant` says which copy is running:                                   *)
(*   "pinAckLast"  src/index.js 130-420        PIN server, 200 sent last   *)
(*   "pinAckFirst" src/unnamed/part_000, _001  PIN server, 200 sent first  *)
(*   "proxyTTL"    src/unnamed/part_002        proxy server, TTL index     *)
(*   "proxyPlain"  src/index.js 421-634        proxy server, no TTL index  *)
(*   "blob"        src/index.js 1-129          uploads the media to Vercel *)
(*                                             Blob, keeps no collection   *)
(*                                                                         *)
(* JavaScript strings that the code takes apart or concatenates (file      *)
(* names, extensions, PINs) are sequences of one-character strings; media  *)
(* ids, MIME types and phone numbers are atoms.                            *)
(***************************************************************************)
EXTENDS Integers, Sequences, FiniteSets, TLC

VARIABLES
    variant,      \* which copy of the server runs
    MONGODB_URI,  \* process.env.MONGODB_URI, fixed at start
    VERIFY_TOKEN, \* process.env.VERIFY_TOKEN, fixed at start
    cachedDb,     \* connectToDatabase's cache: TRUE once a connection is cached
    files,        \* the FileModel collection, in insertion (natural) order
    blobs,        \* the Vercel Blob store of the first copy of index.js
    connects,     \* the connectToDatabase calls in progress, and their history
    now,          \* the clock, in seconds
    removed,      \* history: the watched whatsapp_ids whose documents were deleted
    res           \* what the handler of the latest request did and answered

vars == <<variant, MONGODB_URI, VERIFY_TOKEN, cachedDb, files, blobs, connects, now,
          removed, res>>

---------------------------------------------------------------------------
(* Bounds of the model *)

MaxFiles == 2        \* documents the collection holds at most
MaxTime == 600       \* the clock stops here
TickStep == 300      \* seconds per clock step
RandDen == 9000      \* Math.random() returns k / RandDen, k in 0..RandDen-1
RandStep == 1000     \* distance of the sampled values k between both ends
StreamWindow == 1    \* chunks a piped stream holds at most (its high-water mark)
BigFile == 3         \* chunks of the largest file the platform holds
MaxRequests == 2     \* requests that are inside connectToDatabase at a time
MaxConnects == 3     \* mongoose.connect calls of a run

(* Program constants *)

TTL == 600           \* fileSchema: createdAt expires: 600

---------------------------------------------------------------------------
(* JavaScript values *)

undefined == "undefined"            \* an absent atom (id, MIME type, ...)
undefinedStr == <<"undefined">>     \* an absent string (file name, extension, PIN)

PinVariants == {"pinAckLast", "pinAckFirst"}
ProxyVariants == {"proxyTTL", "proxyPlain"}
BlobVariants == {"blob"}
Variants == PinVariants \cup ProxyVariants \cup BlobVariants
AckFirstVariants == {"pinAckFirst", "proxyTTL"}
TtlVariants == {"pinAckLast", "pinAckFirst", "proxyTTL"}


---------------------------------------------------------------------------
(* Pure helpers *)

\* Number.prototype.toString of one decimal digit
Digit(d) ==
    CASE d = 0 -> "0" [] d = 1 -> "1" [] d = 2 -> "2" [] d = 3 -> "3"
      [] d = 4 -> "4" [] d = 5 -> "5" [] d = 6 -> "6" [] d = 7 -> "7"
      [] d = 8 -> "8" [] d = 9 -> "9"

\* Number.prototype.toString of a non-negative integer, in decimal
RECURSIVE toString(_)
toString(n) ==
    IF n < 10 THEN <<Digit(n)>> ELSE toString(n \div 10) \o <<Digit(n % 10)>>

\* a generator whose factor is 10000 in place of 9000
generatePinWide(rnd) == toString((1000 * RandDen + rnd * 10000) \div RandDen)

\* generatePin with Math.random() = rnd / RandDen:
\* Math.floor(1000 + Math.random() * 9000).toString()
generatePin(rnd) == toString((1000 * RandDen + rnd * 9000) \div RandDen)

\* String.prototype.includes(".")
includesDot(name) == \E i \in 1..Len(name) : name[i] = "."

\* index of the last "." of name, 0 when there is none
LastDot(name) ==
    IF includesDot(name)
    THEN CHOOSE i \in 1..Len(name) :
            name[i] = "." /\ \A j \in (i+1)..Len(name) : name[j] # "."
    ELSE 0

\* node's path.extname for a name without "/": the text from the last "."
\* on, and "" when there is no ".", when the last "." is the first character,
\* and for ".."
extname(name) ==
    LET d == LastDot(name) IN
    IF d = 0 \/ d = 1 THEN <<>>
    ELSE IF name[1] = "." /\ d = Len(name) /\ d = 2 THEN <<>>
    ELSE SubSeq(name, d, Len(name))

\* an extension rule that looks at the file name before the MIME type
extensionForNameFirst(msgType, mimeType, originalName) ==
    IF msgType = "image" THEN <<".", "j", "p", "g">>
    ELSE IF includesDot(originalName) THEN extname(originalName)
    ELSE IF mimeType = "application/pdf" THEN <<".", "p", "d", "f">>
    ELSE <<".", "b", "i", "n">>

\* the webhook's extension rule (PIN servers)
extensionFor(msgType, mimeType, originalName) ==
    IF msgType = "image" THEN <<".", "j", "p", "g">>
    ELSE IF mimeType = "application/pdf" THEN <<".", "p", "d", "f">>
    ELSE IF includesDot(originalName) THEN extname(originalName)
    ELSE <<".", "b", "i", "n">>

\* connectToDatabase: <<resolved, cachedDb afterwards>>; dbUp says whether
\* mongoose.connect reaches the server
connectToDatabase(cached, uri, dbUp) ==
    IF cached THEN <<TRUE, TRUE>>
    ELSE IF uri = undefined THEN <<FALSE, FALSE>>
    ELSE IF dbUp THEN <<TRUE, TRUE>>
    ELSE <<FALSE, FALSE>>

\* connectToDatabase step by step, for requests that overlap.  JavaScript
\* runs the function from its entry to `await mongoose.connect(...)` without
\* interruption, and from the resolution of the await to the return:
\*   "idle"        not inside connectToDatabase
\*   "connecting"  passed `if (cachedDb)`, awaiting mongoose.connect
\*   "cached"      returned cachedDb        "connected"  returned the new conn
\*   "threw"       MONGODB_URI is missing, or mongoose.connect rejected
\* calls counts the mongoose.connect calls, fails those that rejected.
Requests == 1..MaxRequests

NoConnects == [pc |-> [r \in Requests |-> "idle"], calls |-> 0, fails |-> 0]

\* entry of connectToDatabase up to the await
CallConnect(r) ==
    /\ connects.pc[r] = "idle"
    /\ variant \in TtlVariants
    /\ IF cachedDb
       THEN connects' = [connects EXCEPT !.pc[r] = "cached"]
       ELSE IF MONGODB_URI = undefined
       THEN connects' = [connects EXCEPT !.pc[r] = "threw"]
       ELSE /\ connects.calls < MaxConnects
            /\ connects' = [connects EXCEPT !.pc[r] = "connecting",
                                            !.calls = @ + 1]
    /\ UNCHANGED <<variant, MONGODB_URI, VERIFY_TOKEN, cachedDb, files, blobs, now,
                   removed, res>>

\* the await returns: `cachedDb = conn; return conn`, or the rejection
\* leaves the function
SettleConnect(r, dbUp) ==
    /\ connects.pc[r] = "connecting"
    /\ cachedDb' = (cachedDb \/ dbUp)
    /\ connects' = IF dbUp THEN [connects EXCEPT !.pc[r] = "connected"]
                   ELSE [connects EXCEPT !.pc[r] = "threw", !.fails = @ + 1]
    /\ UNCHANGED <<variant, MONGODB_URI, VERIFY_TOKEN, files, blobs, now, removed, res>>

\* the request that called connectToDatabase ends
FinishConnect(r) ==
    /\ connects.pc[r] \in {"cached", "connected", "threw"}
    /\ connects' = [connects EXCEPT !.pc[r] = "idle"]
    /\ UNCHANGED <<variant, MONGODB_URI, VERIFY_TOKEN, cachedDb, files, blobs, now,
                   removed, res>>

---------------------------------------------------------------------------
(* The collection *)

NoDoc == [pin |-> undefinedStr, whatsapp_id |-> undefined, filename |-> undefinedStr,
          mime_type |-> undefined, sender_mobile |-> undefined,
          extension |-> undefinedStr, url |-> undefined, createdAt |-> -1]

Pins(fs) == { fs[i].pin : i \in 1..Len(fs) }

\* FileModel.findOne({ pin }): the first document, in natural order, with
\* that pin; NoDoc stands for null
findOne(fs, pin) ==
    IF \E i \in 1..Len(fs) : fs[i].pin = pin
    THEN fs[CHOOSE i \in 1..Len(fs) :
                fs[i].pin = pin /\ \A j \in 1..(i-1) : fs[j].pin # pin]
    ELSE NoDoc

\* the TTL index: a document is due for deletion from createdAt + 600 s on
expired(doc, t) == doc.createdAt + TTL <= t

SelectSeqNot(fs, i) == SubSeq(fs, 1, i-1) \o SubSeq(fs, i+1, Len(fs))

\* a write that replaces the stored document of the same pin, if there is one
createFileUpsert(fs, doc) ==
    IF \E i \in 1..Len(fs) : fs[i].pin = doc.pin
    THEN [fs EXCEPT ![CHOOSE i \in 1..Len(fs) : fs[i].pin = doc.pin] = doc]
    ELSE Append(fs, doc)

\* FileModel.create(doc): inserts a new document, the stored ones untouched
createFile(fs, doc) == Append(fs, doc)

---------------------------------------------------------------------------
(* Requests and responses *)

\* res while no request is being handled; status 0 = no response sent
Idle == [route |-> "none", status |-> 0, stream |-> FALSE, ctype |-> undefined,
         fname |-> undefinedStr, media |-> undefined, calls |-> 0,
         pin |-> undefinedStr, found |-> NoDoc, msgType |-> undefined,
         created |-> FALSE, sent |-> "none", sentPin |-> undefinedStr,
         delivered |-> FALSE, err |-> "none", listed |-> <<>>, blobs |-> <<>>,
         object |-> FALSE, body |-> "none", peak |-> 0, order |-> <<>>,
         responses |-> 0, mode |-> undefined, token |-> undefined]

\* the parts of a POST /webhook body the handlers read:
\*   object    body.object is truthy
\*   entry     "none": no body.entry; "empty": body.entry = [];
\*             "nomessages": a value without messages; "messages": value.messages[0] exists
\*   metadata  value.metadata is present
\*   from, type   messages[0].from, messages[0].type
\*   part      messages[0][type]: present or not, and its id, filename, mime_type
Part(present, id, filename, mime) ==
    [present |-> present, id |-> id, filename |-> filename, mime_type |-> mime]

Body(object, entry, metadata, from, type, part) ==
    [object |-> object, entry |-> entry, metadata |-> metadata, from |-> from,
     type |-> type, part |-> part]

MediaTypes == {"document", "image"}

---------------------------------------------------------------------------
(* POST /webhook, PIN servers *)

\* the document FileModel.create writes (createdAt defaults to Date.now)
pinDoc(body, pin, t) ==
    LET originalName == IF body.type = "document" THEN body.part.filename
                        ELSE <<"p", "h", "o", "t", "o">>
        mimeType == body.part.mime_type
    IN [pin |-> pin, whatsapp_id |-> body.part.id, filename |-> originalName,
        mime_type |-> mimeType, sender_mobile |-> body.from,
        extension |-> extensionFor(body.type, mimeType, originalName),
        url |-> undefined, createdAt |-> t]

\* a TypeError is thrown while the media fields are read:
\* message.document / message.image is absent, or originalName.includes is
\* reached with an undefined filename
pinFieldsThrow(body) ==
    \/ ~body.part.present
    \/ /\ body.type = "document"
       /\ body.part.mime_type # "application/pdf"
       /\ body.part.filename = undefinedStr

\* how many times a webhook handler calls res.sendStatus on a path that
\* ends with the given status.  Every path of every copy reaches at most
\* one res.sendStatus call (the early ones are followed by return or by
\* code that sends nothing); a path that throws outside try/catch, or that
\* waits forever, reaches none: status 0.
webhookResponses(status) == IF status = 0 THEN 0 ELSE 1

\* a helper that lets the error of axios.post leave it
sendMessageRethrows(sendOk) == IF sendOk THEN "sent" ELSE "threw"

\* sendMessage / sendReply: axios.post inside try/catch; the catch block
\* logs the error and the function returns normally
sendMessage(sendOk) == IF sendOk THEN "sent" ELSE "logged"

\* the error a handler ends with: the stage that threw, or the send when the
\* helper was awaited and threw
webhookErr(stage, throwing, sends, sendOk) ==
    IF stage \in throwing THEN stage
    ELSE IF sends /\ sendMessage(sendOk) = "threw" THEN "send"
    ELSE "none"

\* the status of the response: the ack-first copies answer 200 before they
\* look at the body; the ack-last copy answers 404 without body.object and
\* 200 on every other path, the catch block included
webhookPinStatus(ackFirst, body) ==
    IF ackFirst THEN 200 ELSE IF body.object THEN 200 ELSE 404

\* a handler whose text branch falls through into the media branch
webhookPinStageFallThrough(body, connected, dbUp) ==
    IF ~body.object THEN "ignored"
    ELSE IF body.entry # "messages" THEN "ignored"
    ELSE IF ~body.metadata THEN "parse"
    ELSE IF ~connected THEN "db"
    ELSE IF body.type \notin MediaTypes \cup {"text"} THEN "other"
    ELSE IF ~dbUp THEN "db"
    ELSE "media"

\* what the handler does: the stage at which it stops
\*   "ignored"  nothing to process     "parse"  TypeError before the database
\*   "db"       connect or create threw
\*   "text"     the hint was sent      "other"  a type the handler skips
\*   "fields"   TypeError while reading the media fields
\*   "media"    a document was created and the PIN reply attempted
webhookPinStage(body, connected, dbUp) ==
    IF ~body.object THEN "ignored"
    ELSE IF body.entry # "messages" THEN "ignored"
    ELSE IF ~body.metadata THEN "parse"
    ELSE IF ~connected THEN "db"
    ELSE IF body.type = "text" THEN "text"
    ELSE IF body.type \notin MediaTypes THEN "other"
    ELSE IF pinFieldsThrow(body) THEN "fields"
    ELSE IF ~dbUp THEN "db"
    ELSE "media"

\* what the handler does to the outside, in the order of its statements:
\* "create" FileModel.create resolved, "send" sendMessage was awaited
webhookPinWork(stage) ==
    CASE stage = "media" -> <<"create", "send">>
      [] stage = "text" -> <<"send">>
      [] OTHER -> <<>>

\* a handler that acknowledges before it works, whatever the copy
webhookPinOrderAckFirst(ackFirst, stage) == <<"respond">> \o webhookPinWork(stage)

\* the ack-first copies call res.sendStatus(200) as their first statement;
\* the ack-last copy calls res.sendStatus as its last one, at the end of the
\* try block or in the catch block
webhookPinOrder(ackFirst, stage) ==
    IF ackFirst THEN <<"respond">> \o webhookPinWork(stage)
    ELSE webhookPinWork(stage) \o <<"respond">>

\* a handler that sends the PIN before it awaits the write
webhookPinSentEager(stage) ==
    CASE stage = "text" -> "hint"
      [] stage \in {"media", "db"} -> "pin"
      [] OTHER -> "none"

\* the reply the handler sends: the hint for a text, the PIN after
\* FileModel.create has resolved
webhookPinSent(stage) ==
    CASE stage = "text" -> "hint"
      [] stage = "media" -> "pin"
      [] OTHER -> "none"

PostWebhookPin(body, rnd, dbUp, sendOk) ==
    /\ res = Idle
    /\ variant \in PinVariants
    /\ LET reads == body.object /\ body.entry = "messages" /\ body.metadata
           conn == IF reads THEN connectToDatabase(cachedDb, MONGODB_URI, dbUp)
                   ELSE <<FALSE, cachedDb>>
           stage == webhookPinStage(body, conn[1], dbUp)
           pin == generatePin(rnd)
       IN /\ stage = "media" => Len(files) < MaxFiles
          /\ cachedDb' = conn[2]
          /\ files' = IF stage = "media" THEN createFile(files, pinDoc(body, pin, now))
                      ELSE files
          /\ res' = [Idle EXCEPT
                       !.route = "postWebhook",
                       !.object = body.object,
                       !.status = webhookPinStatus(variant \in AckFirstVariants, body),
                       !.responses = webhookResponses(
                                  webhookPinStatus(variant \in AckFirstVariants, body)),
                       !.msgType = IF body.object /\ body.entry = "messages"
                                   THEN body.type ELSE undefined,
                       !.created = (stage = "media"),
                       !.order = webhookPinOrder(variant \in AckFirstVariants, stage),
                       !.sent = webhookPinSent(stage),
                       !.sentPin = IF webhookPinSent(stage) = "pin" THEN pin
                                   ELSE undefinedStr,
                       !.delivered = /\ stage \in {"text", "media"}
                                     /\ sendMessage(sendOk) = "sent",
                       !.err = webhookErr(stage, {"parse", "db", "fields"},
                                          stage \in {"text", "media"}, sendOk)]
    /\ UNCHANGED <<variant, MONGODB_URI, VERIFY_TOKEN, connects, blobs, now, removed>>

---------------------------------------------------------------------------
(* POST /webhook, proxy servers *)

\* doc.filename || `doc_${msg.timestamp}.pdf`
defaultPathname == <<"d", "o", "c", "_", ".", "p", "d", "f">>

pathnameFor(filename) ==
    IF filename = undefinedStr \/ filename = <<>> THEN defaultPathname ELSE filename

\* newFile as FileModel.create writes it; only part_002 stores from_mobile
proxyDoc(body, withSender, t) ==
    [pin |-> undefinedStr, whatsapp_id |-> body.part.id,
     filename |-> pathnameFor(body.part.filename),
     mime_type |-> body.part.mime_type,
     sender_mobile |-> IF withSender THEN body.from ELSE undefined,
     extension |-> undefinedStr, url |-> body.part.id, createdAt |-> t]

\* part_002: everything after the early 200 runs inside try/catch
\*   "ignored" | "parse" | "db" | "fields" | "text" | "other" | "media"
webhookProxyTtlStage(body, connected, dbUp) ==
    IF ~body.object \/ body.entry \in {"none", "nomessages"} THEN "ignored"
    ELSE IF body.entry = "empty" THEN "parse"
    ELSE IF ~body.metadata THEN "parse"
    ELSE IF body.type = "document"
         THEN IF ~connected THEN "db"
              ELSE IF ~body.part.present THEN "fields"
              ELSE IF ~dbUp THEN "db"
              ELSE "media"
    ELSE IF body.type = "text"
         THEN IF body.part.present THEN "text" ELSE "fields"
    ELSE "other"

\* index.js (third copy): only FileModel.create is inside try/catch; a
\* TypeError before it leaves the request without a response
webhookProxyPlainStage(body, dbUp) ==
    IF ~body.object \/ body.entry \in {"none", "nomessages"} THEN "ignored"
    ELSE IF body.entry = "empty" THEN "parse"
    ELSE IF body.type = "document"
         THEN IF ~body.part.present THEN "fields"
              ELSE IF ~dbUp THEN "db"
              ELSE "media"
    ELSE "other"

webhookProxyStatus(v, body, stage) ==
    IF v = "proxyTTL" THEN 200
    ELSE IF ~body.object THEN 404
    ELSE IF stage \in {"parse", "fields"} THEN 0
    ELSE 200

PostWebhookProxy(body, dbUp, sendOk) ==
    /\ res = Idle
    /\ variant \in ProxyVariants
    /\ LET reads == /\ variant = "proxyTTL"
                    /\ body.object /\ body.entry = "messages" /\ body.metadata
                    /\ body.type = "document"
           conn == IF reads THEN connectToDatabase(cachedDb, MONGODB_URI, dbUp)
                   ELSE <<FALSE, cachedDb>>
           stage == IF variant = "proxyTTL"
                    THEN webhookProxyTtlStage(body, conn[1], dbUp)
                    ELSE webhookProxyPlainStage(body, dbUp /\ MONGODB_URI # undefined)
       IN /\ stage = "media" => Len(files) < MaxFiles
          /\ cachedDb' = conn[2]
          /\ files' = IF stage = "media"
                      THEN createFile(files, proxyDoc(body, variant = "proxyTTL", now))
                      ELSE files
          /\ res' = [Idle EXCEPT
                       !.route = "postWebhook",
                       !.object = body.object,
                       !.status = webhookProxyStatus(variant, body, stage),
                       !.responses = webhookResponses(
                                        webhookProxyStatus(variant, body, stage)),
                       !.msgType = IF body.object /\ body.entry = "messages"
                                   THEN body.type ELSE undefined,
                       !.created = (stage = "media"),
                       !.sent = IF stage = "media" /\ variant = "proxyTTL"
                                THEN "received" ELSE "none",
                       !.delivered = /\ stage = "media" /\ variant = "proxyTTL"
                                     /\ sendMessage(sendOk) = "sent",
                       !.err = webhookErr(stage, {"parse", "db", "fields"},
                                          stage = "media" /\ variant = "proxyTTL",
                                          sendOk)]
    /\ UNCHANGED <<variant, MONGODB_URI, VERIFY_TOKEN, connects, blobs, now, removed>>

---------------------------------------------------------------------------
(* Media transfer: what a handler holds in memory, how a piped response ends *)

\* the size, in chunks, of the file the platform holds for a media id
mediaSize(mediaId) == IF mediaId = "m1" THEN BigFile ELSE 1

\* readable.pipe(res): chunks are relayed as they arrive, and the source is
\* paused while more than the high-water mark waits in res
pipePeak(size) == IF size < StreamWindow THEN size ELSE StreamWindow

\* responseType "arraybuffer": axios collects every chunk before it resolves
arraybufferPeak(size) == size

\* what becomes of a response that fileResponse.data.pipe(res) feeds.  pipe
\* ends res when the source ends; when the source fails it does not close
\* res, and no handler puts an 'error' listener on the source:
\*   "complete"  the source ended, res.end() was called
\*   "open"      the source stopped early; res stays open with part of the
\*               file written
\*   "aborted"   the source emitted 'error' with no listener: the uncaught
\*               exception ends the process and with it the connection
pipeOutcome(upstream) ==
    CASE upstream = "streamAborts" -> "open"
      [] upstream = "streamErrors" -> "aborted"
      [] OTHER -> "complete"

---------------------------------------------------------------------------
(* POST /webhook and GET /, the Vercel Blob copy *)

\* String.prototype.replace(/\s+/g, "_"): every run of blanks becomes one "_"
RECURSIVE replaceBlanks(_)
replaceBlanks(name) ==
    IF name = <<>> THEN <<>>
    ELSE IF Head(name) = " "
         THEN IF Len(name) > 1 /\ name[2] = " " THEN replaceBlanks(Tail(name))
              ELSE <<"_">> \o replaceBlanks(Tail(name))
         ELSE <<Head(name)>> \o replaceBlanks(Tail(name))

\* `${Date.now()}_${defaultName.replace(/\s+/g, '_')}`
blobFileName(body, t) ==
    LET defaultName == IF body.type = "document" THEN body.part.filename
                       ELSE <<"p", "h", "o", "t", "o", ".", "j", "p", "g">>
    IN toString(t) \o <<"_">> \o replaceBlanks(defaultName)

\* the path the handler takes; every read of the payload before the media
\* fields uses ?. and cannot throw
\*   "ignored"  no body.object             "nomessage"  no messages[0]
\*   "fields"   message.document / message.image is absent, or
\*              defaultName.replace is reached with an undefined filename
\*   "lookup", "fetch"   an axios call failed     "put"  the upload failed
webhookBlobStage(body, upstream, putOk) ==
    IF ~body.object THEN "ignored"
    ELSE IF body.entry # "messages" THEN "nomessage"
    ELSE IF body.type = "text" THEN "text"
    ELSE IF body.type \notin MediaTypes THEN "other"
    ELSE IF ~body.part.present THEN "fields"
    ELSE IF body.type = "document" /\ body.part.filename = undefinedStr THEN "fields"
    ELSE IF upstream = "lookupHangs" THEN "lookupHang"
    ELSE IF upstream = "lookupFails" \/ body.part.id = undefined THEN "lookup"
    ELSE IF upstream = "fetchHangs" THEN "fetchHang"
    ELSE IF upstream \in {"fetchFails", "streamAborts", "streamErrors"} THEN "fetch"
    ELSE IF ~putOk THEN "put"
    ELSE "media"

\* res.sendStatus(404) without body.object, res.sendStatus(500) in the catch
\* block, res.sendStatus(200) at the end of the try block
webhookBlobStatus(stage) ==
    CASE stage = "ignored" -> 404
      [] stage \in {"fields", "lookup", "fetch", "put"} -> 500
      [] stage \in {"lookupHang", "fetchHang"} -> 0
      [] OTHER -> 200

PostWebhookBlob(body, upstream, putOk, sendOk) ==
    /\ res = Idle
    /\ variant \in BlobVariants
    /\ LET stage == webhookBlobStage(body, upstream, putOk)
       IN /\ stage = "media" => Len(blobs) < MaxFiles
          /\ blobs' = IF stage = "media"
                      THEN Append(blobs, [pathname |-> blobFileName(body, now),
                                          media |-> body.part.id])
                      ELSE blobs
          /\ res' = [Idle EXCEPT
                       !.route = "postWebhook",
                       !.object = body.object,
                       !.status = webhookBlobStatus(stage),
                       !.responses = webhookResponses(webhookBlobStatus(stage)),
                       !.msgType = IF body.object /\ body.entry = "messages"
                                   THEN body.type ELSE undefined,
                       !.calls = CASE stage \in {"lookup", "lookupHang"} -> 1
                                   [] stage \in {"fetch", "fetchHang", "put", "media"} -> 2
                                   [] OTHER -> 0,
                       !.peak = IF stage \in {"put", "media"}
                                THEN arraybufferPeak(mediaSize(body.part.id)) ELSE 0,
                       !.sent = CASE stage = "text" -> "hint"
                                  [] stage = "media" -> "saved"
                                  [] OTHER -> "none",
                       !.delivered = /\ stage \in {"text", "media"}
                                     /\ sendMessage(sendOk) = "sent",
                       !.err = webhookErr(stage, {"fields", "lookup", "fetch", "put",
                                                  "lookupHang", "fetchHang"},
                                          stage \in {"text", "media"}, sendOk)]
    /\ UNCHANGED <<variant, MONGODB_URI, VERIFY_TOKEN, cachedDb, files, connects, now, removed>>

\* GET /: list() of the blob store; the catch block answers with
\* res.send("Error loading files"), status 200
GetBlobs(storeUp) ==
    /\ res = Idle
    /\ variant \in BlobVariants
    /\ res' = [Idle EXCEPT
                 !.route = "blobs",
                 !.status = 200,
                 !.blobs = IF storeUp THEN blobs ELSE <<>>,
                 !.err = IF storeUp THEN "none" ELSE "blob"]
    /\ UNCHANGED <<variant, MONGODB_URI, VERIFY_TOKEN, cachedDb, files, blobs, connects,
                   now, removed>>

---------------------------------------------------------------------------
(* GET /download/:pin, PIN servers *)

\* a handler that names the download after the sender's file name
downloadNameOriginal(file) == file.filename

\* `${file.pin}${file.extension}`
downloadName(file) == file.pin \o file.extension

\* upstream is what the media platform does with the handler's calls:
\*   "ok"
\*   "lookupFails"   the media-id lookup is rejected
\*   "fetchFails"    the lookup answers and the fetch of the direct URL fails
\*   "lookupHangs"   the lookup is never answered
\*   "fetchHangs"    the lookup answers, the fetch is never answered
\*   "streamAborts"  the fetch answers and the byte stream stops before its
\*                   end without an 'error' event reaching the process
\*   "streamErrors"  the same, with an 'error' event on the stream
\* the path the handler takes:
\*   "db"        connectToDatabase or findOne threw
\*   "notfound"  findOne returned null
\*   "lookup"    the media-id lookup (GET graph.facebook.com/<id>) failed
\*   "fetch"     the fetch of the direct URL failed
\*   "header"    res.setHeader threw on an undefined Content-Type
\*   "stream"    headers set, fileResponse.data piped into res
\*   "lookupHang", "fetchHang"   the await of an axios call never returns:
\*               neither call is given a timeout
downloadStage(file, connected, dbUp, upstream) ==
    IF ~connected \/ ~dbUp THEN "db"
    ELSE IF file = NoDoc THEN "notfound"
    ELSE IF upstream = "lookupHangs" THEN "lookupHang"
    ELSE IF upstream = "lookupFails" \/ file.whatsapp_id = undefined THEN "lookup"
    ELSE IF upstream = "fetchHangs" THEN "fetchHang"
    ELSE IF upstream = "fetchFails" THEN "fetch"
    ELSE IF file.mime_type = undefined THEN "header"
    ELSE "stream"

\* a handler that answers an upstream failure like an unknown code
downloadStatusAllNotFound(stage) ==
    CASE stage \in {"notfound", "lookup", "fetch"} -> 404
      [] stage = "stream" -> 200
      [] OTHER -> 500

\* 0: no response is sent
downloadStatus(stage) ==
    CASE stage = "notfound" -> 404
      [] stage = "stream" -> 200
      [] stage \in {"lookupHang", "fetchHang"} -> 0
      [] OTHER -> 500

\* a handler that asks the platform before it looks the code up
downloadCallsEager(stage) ==
    CASE stage = "db" -> 0
      [] stage \in {"notfound", "lookup"} -> 1
      [] OTHER -> 2

\* calls made to the media platform along the path
downloadCalls(stage) ==
    CASE stage \in {"db", "notfound"} -> 0
      [] stage \in {"lookup", "lookupHang"} -> 1
      [] OTHER -> 2

\* a consume-once download: the document served is deleted after the stream
downloadFilesConsume(fs, file, stage) ==
    IF stage = "stream"
    THEN SelectSeq(fs, LAMBDA d : d # file)
    ELSE fs

\* the collection after the handler: it only reads
downloadFiles(fs, file, stage) == fs

GetDownload(pin, dbUp, upstream) ==
    /\ res = Idle
    /\ variant \in PinVariants
    /\ LET conn == connectToDatabase(cachedDb, MONGODB_URI, dbUp)
           file == findOne(files, pin)
           stage == downloadStage(file, conn[1], dbUp, upstream)
       IN /\ cachedDb' = IF stage = "stream" /\ pipeOutcome(upstream) = "aborted"
                         THEN FALSE ELSE conn[2]
          /\ files' = downloadFiles(files, file, stage)
          /\ res' = [Idle EXCEPT
                       !.route = "download",
                       !.status = downloadStatus(stage),
                       !.stream = (stage = "stream"),
                       !.body = IF stage = "stream" THEN pipeOutcome(upstream)
                                ELSE "none",
                       !.peak = IF stage = "stream"
                                THEN pipePeak(mediaSize(file.whatsapp_id)) ELSE 0,
                       !.ctype = IF stage = "stream" THEN file.mime_type ELSE undefined,
                       !.fname = IF stage = "stream" THEN downloadName(file)
                                 ELSE undefinedStr,
                       !.media = IF stage = "stream" THEN file.whatsapp_id ELSE undefined,
                       !.calls = downloadCalls(stage),
                       !.pin = pin,
                       !.found = IF stage = "db" THEN NoDoc ELSE file,
                       !.err = IF stage \in {"notfound", "stream"} THEN "none" ELSE stage]
    /\ UNCHANGED <<variant, MONGODB_URI, VERIFY_TOKEN, connects, blobs, now, removed>>

---------------------------------------------------------------------------
(* GET /api/proxy/:mediaId, proxy servers *)

\* Content-Disposition: the third copy of index.js sets a fixed name, part_002 none
proxyName(v) ==
    IF v = "proxyPlain"
    THEN <<"w", "h", "a", "t", "s", "a", "p", "p", "_", "d", "o", "c", ".", "p", "d", "f">>
    ELSE undefinedStr

proxyStage(mediaId, upstream) ==
    IF upstream = "lookupHangs" THEN "lookupHang"
    ELSE IF upstream = "lookupFails" \/ mediaId = undefined THEN "lookup"
    ELSE IF upstream = "fetchHangs" THEN "fetchHang"
    ELSE IF upstream = "fetchFails" THEN "fetch"
    ELSE "stream"

\* urlResponse.data.mime_type: the MIME type the platform holds for a
\* media id, the one its webhook announced
platformMime(mediaId) ==
    CASE mediaId = "m1" -> "application/pdf"
      [] mediaId = "m2" -> "image/png"
      [] OTHER -> "text/plain"

GetProxy(mediaId, upstream) ==
    /\ res = Idle
    /\ variant \in ProxyVariants
    /\ LET stage == proxyStage(mediaId, upstream)
       IN res' = [Idle EXCEPT
                    !.route = "proxy",
                    !.status = downloadStatus(stage),
                    !.stream = (stage = "stream"),
                    !.body = IF stage = "stream" THEN pipeOutcome(upstream)
                             ELSE "none",
                    !.peak = IF stage = "stream" THEN pipePeak(mediaSize(mediaId))
                             ELSE 0,
                    !.ctype = IF stage = "stream" THEN platformMime(mediaId)
                              ELSE undefined,
                    !.fname = IF stage = "stream" THEN proxyName(variant)
                              ELSE undefinedStr,
                    !.media = IF stage = "stream" THEN mediaId ELSE undefined,
                    !.calls = downloadCalls(stage),
                    !.err = IF stage = "stream" THEN "none" ELSE stage]
    /\ UNCHANGED <<variant, MONGODB_URI, VERIFY_TOKEN, connects, blobs, cachedDb, files, now, removed>>

---------------------------------------------------------------------------
(* POST /api/clear-all: every copy but the first and the third of          *)
(* index.js.  The handler                                                  *)
(* has no try/catch: when connectToDatabase or deleteMany rejects, no      *)
(* response is sent.                                                       *)

\* the media ids whose deletion the history variable records
Watched == {"m1"}

clearAllFiles(fs, ok) == IF ok THEN <<>> ELSE fs

PostClearAll(dbUp) ==
    /\ res = Idle
    /\ variant \notin {"proxyPlain"} \cup BlobVariants
    /\ LET conn == connectToDatabase(cachedDb, MONGODB_URI, dbUp)
           ok == conn[1] /\ dbUp
       IN /\ cachedDb' = conn[2]
          /\ files' = clearAllFiles(files, ok)
          /\ removed' = IF ok
                        THEN removed \cup
                               ({ files[i].whatsapp_id : i \in 1..Len(files) } \cap Watched)
                        ELSE removed
          /\ res' = [Idle EXCEPT
                       !.route = "clearAll",
                       !.status = IF ok THEN 302 ELSE 0,
                       !.err = IF ok THEN "none" ELSE "db"]
    /\ UNCHANGED <<variant, MONGODB_URI, VERIFY_TOKEN, connects, blobs, now>>

---------------------------------------------------------------------------
(* GET / and GET /api/files: FileModel.find().sort({ createdAt: -1 })      *)

\* .sort({ createdAt: 1 }): oldest first
RECURSIVE sortCreatedAtAsc(_)
sortCreatedAtAsc(fs) ==
    IF fs = <<>> THEN <<>>
    ELSE LET x == Head(fs)
             rest == sortCreatedAtAsc(Tail(fs))
             before == SelectSeq(rest, LAMBDA d : d.createdAt < x.createdAt)
             after == SelectSeq(rest, LAMBDA d : d.createdAt >= x.createdAt)
         IN before \o <<x>> \o after

\* .sort({ createdAt: -1 }): the documents of the collection, newest first.
\* MongoDB leaves the order of documents with equal createdAt open; here
\* they stay in natural order.
RECURSIVE sortCreatedAtDesc(_)
sortCreatedAtDesc(fs) ==
    IF fs = <<>> THEN <<>>
    ELSE LET x == Head(fs)
             rest == sortCreatedAtDesc(Tail(fs))
             before == SelectSeq(rest, LAMBDA d : d.createdAt > x.createdAt)
             after == SelectSeq(rest, LAMBDA d : d.createdAt <= x.createdAt)
         IN before \o <<x>> \o after

\* route is "dashboard" or "apiFiles"; /api/files exists in the proxy
\* servers only, and in part_002 it has no try/catch
GetList(route, dbUp) ==
    /\ res = Idle
    /\ variant \notin BlobVariants
    /\ route = "apiFiles" => variant \in ProxyVariants
    /\ LET usesDb == ~(variant = "proxyPlain")
           conn == IF usesDb THEN connectToDatabase(cachedDb, MONGODB_URI, dbUp)
                   ELSE <<MONGODB_URI # undefined, cachedDb>>
           ok == conn[1] /\ dbUp
           caught == ~(route = "apiFiles" /\ variant = "proxyTTL")
       IN /\ cachedDb' = conn[2]
          /\ res' = [Idle EXCEPT
                       !.route = route,
                       !.status = IF ok THEN 200 ELSE IF caught THEN 500 ELSE 0,
                       !.listed = IF ok THEN sortCreatedAtDesc(files) ELSE <<>>,
                       !.err = IF ok THEN "none" ELSE "db"]
    /\ UNCHANGED <<variant, MONGODB_URI, VERIFY_TOKEN, connects, blobs, files, now, removed>>

---------------------------------------------------------------------------
(* GET /webhook: the handshake *)

handshakeAccepts(mode, token, secret) == mode = "subscribe" /\ token = secret

GetWebhook(mode, token) ==
    /\ res = Idle
    /\ res' = [Idle EXCEPT
                 !.route = "getWebhook",
                 !.mode = mode,
                 !.token = token,
                 !.status = IF handshakeAccepts(mode, token, VERIFY_TOKEN) THEN 200
                            ELSE IF variant \in ProxyVariants THEN 400 ELSE 403]
    /\ UNCHANGED <<variant, MONGODB_URI, VERIFY_TOKEN, connects, blobs, cachedDb, files, now, removed>>

---------------------------------------------------------------------------
(* The environment: the clock and MongoDB's TTL monitor *)

Tick ==
    /\ res = Idle
    /\ now + TickStep <= MaxTime
    /\ now' = now + TickStep
    /\ UNCHANGED <<variant, MONGODB_URI, VERIFY_TOKEN, connects, blobs, cachedDb, files, removed, res>>

\* the TTL monitor deletes a document at some moment after it expired
\* (fileSchema: createdAt expires: 600); the third copy of index.js has no
\* TTL index
TtlDelete(i) ==
    /\ res = Idle
    /\ variant \in TtlVariants
    /\ i \in 1..Len(files)
    /\ expired(files[i], now)
    /\ files' = SelectSeqNot(files, i)
    /\ removed' = removed \cup ({files[i].whatsapp_id} \cap Watched)
    /\ UNCHANGED <<variant, MONGODB_URI, VERIFY_TOKEN, connects, blobs, cachedDb, now, res>>

\* the handler has returned and its response is out: the server takes the
\* next request.  Each handler runs as one step, so res holds the response
\* of the request handled in that step until this step clears it.
EndRequest ==
    /\ res # Idle
    /\ res' = Idle
    /\ UNCHANGED <<variant, MONGODB_URI, VERIFY_TOKEN, connects, blobs, cachedDb, files, now, removed>>

---------------------------------------------------------------------------
(* Inputs *)

Rands == {0, RandDen - 1}
Upstreams == {"ok", "lookupFails", "fetchFails", "lookupHangs", "fetchHangs",
              "streamAborts", "streamErrors"}

name_a_pdf == <<"a", ".", "p", "d", "f">>

Absent == Part(FALSE, undefined, undefinedStr, undefined)
TextPart == Part(TRUE, undefined, undefinedStr, undefined)
PdfPart == Part(TRUE, "m1", name_a_pdf, "application/pdf")
PdfNoId == Part(TRUE, undefined, name_a_pdf, "application/pdf")
NoNamePart == Part(TRUE, "m3", undefinedStr, "text/plain")
PngPart == Part(TRUE, "m2", undefinedStr, "image/png")

Message(type, part) == Body(TRUE, "messages", TRUE, "u1", type, part)

\* a document whose file name holds blanks
BlankNamePart == Part(TRUE, "m1", <<"a", " ", " ", "b">>, "application/pdf")

Bodies ==
    { Body(FALSE, "none", FALSE, undefined, undefined, Absent),
      Body(TRUE, "none", FALSE, undefined, undefined, Absent),
      Body(TRUE, "empty", FALSE, undefined, undefined, Absent),
      Body(TRUE, "nomessages", TRUE, undefined, undefined, Absent),
      Body(TRUE, "messages", FALSE, "u1", "document", PdfPart),
      Message("text", TextPart), Message("text", Absent),
      Message("sticker", Absent),
      Message("document", Absent), Message("document", PdfPart),
      Message("document", PdfNoId), Message("document", NoNamePart),
      Message("image", Absent), Message("image", PngPart) }

\* the random values and reply outcomes that matter for a body
RandsFor(body) == IF body.type \in MediaTypes /\ body.part.present THEN Rands ELSE {0}
SendsFor(body) == IF body.type \in {"text", "document", "image"} THEN BOOLEAN ELSE {TRUE}

RequestPins == { generatePin(r) : r \in Rands } \cup { <<"1", "2", "3", "4">> }
RequestIds == {"m1", "m3", undefined}

Configs == { <<"mongodb://db", "secret">>, <<undefined, "secret">> }

---------------------------------------------------------------------------
(* The specification *)

Init ==
    /\ variant \in Variants
    /\ \E c \in Configs : MONGODB_URI = c[1] /\ VERIFY_TOKEN = c[2]
    /\ cachedDb = FALSE
    /\ files = <<>>
    /\ blobs = <<>>
    /\ connects = NoConnects
    /\ now = 0
    /\ removed = {}
    /\ res = Idle

\* the inputs of a request are drawn only where its handler can run
Next ==
    \/ /\ res = Idle /\ variant \in PinVariants
       /\ \E body \in Bodies, dbUp \in BOOLEAN :
            \E rnd \in RandsFor(body), sendOk \in SendsFor(body) :
               PostWebhookPin(body, rnd, dbUp, sendOk)
    \/ /\ res = Idle /\ variant \in ProxyVariants
       /\ \E body \in Bodies, dbUp \in BOOLEAN :
            \E sendOk \in SendsFor(body) : PostWebhookProxy(body, dbUp, sendOk)
    \/ /\ res = Idle /\ variant \in PinVariants
       /\ \E pin \in RequestPins, dbUp \in BOOLEAN, upstream \in Upstreams :
             GetDownload(pin, dbUp, upstream)
    \/ /\ res = Idle /\ variant \in ProxyVariants
       /\ \E mediaId \in RequestIds, upstream \in Upstreams :
             GetProxy(mediaId, upstream)
    \/ \E dbUp \in BOOLEAN : PostClearAll(dbUp)
    \/ \E route \in {"dashboard", "apiFiles"}, dbUp \in BOOLEAN : GetList(route, dbUp)
    \/ /\ res = Idle
       /\ \E mode \in {"subscribe", "other"}, token \in {"secret", "wrong", undefined} :
             GetWebhook(mode, token)
    \/ /\ res = Idle /\ variant \in BlobVariants
       /\ \E body \in Bodies \cup {Message("document", BlankNamePart)},
               upstream \in Upstreams, putOk \in BOOLEAN :
            \E sendOk \in SendsFor(body) :
               PostWebhookBlob(body, upstream, putOk, sendOk)
    \/ \E storeUp \in BOOLEAN : GetBlobs(storeUp)
    \/ EndRequest
    \/ Tick
    \/ \E i \in 1..MaxFiles : TtlDelete(i)

Spec == Init /\ [][Next]_vars

---------------------------------------------------------------------------
(* Overlapping requests inside connectToDatabase *)

InitConnect ==
    /\ variant \in TtlVariants
    /\ \E c \in Configs : MONGODB_URI = c[1] /\ VERIFY_TOKEN = c[2]
    /\ cachedDb = FALSE
    /\ files = <<>>
    /\ blobs = <<>>
    /\ connects = NoConnects
    /\ now = 0
    /\ removed = {}
    /\ res = Idle

NextConnect ==
    \/ \E r \in Requests : CallConnect(r)
    \/ \E r \in Requests, dbUp \in BOOLEAN : SettleConnect(r, dbUp)
    \/ \E r \in Requests : FinishConnect(r)

SpecConnect == InitConnect /\ [][NextConnect]_vars

---------------------------------------------------------------------------
(* The handshake over the configurations, a process started without        *)
(* VERIFY_TOKEN included                                                   *)

HandshakeConfigs ==
    { <<uri, secret>> : uri \in {"mongodb://db", undefined},
                        secret \in {"secret", undefined} }

InitHandshake ==
    /\ variant \in Variants
    /\ \E c \in HandshakeConfigs : MONGODB_URI = c[1] /\ VERIFY_TOKEN = c[2]
    /\ cachedDb = FALSE
    /\ files = <<>>
    /\ blobs = <<>>
    /\ connects = NoConnects
    /\ now = 0
    /\ removed = {}
    /\ res = Idle

NextHandshake ==
    \/ \E mode \in {"subscribe", "other"}, token \in {"secret", "wrong", undefined} :
          GetWebhook(mode, token)
    \/ EndRequest

SpecHandshake == InitHandshake /\ [][NextHandshake]_vars

---------------------------------------------------------------------------
(* The PIN webhook over a wider range of file names, MIME types and random *)
(* values: the inputs of the extension rule and of generatePin             *)

ExtNames ==
    { name_a_pdf, <<"a", ".", "t">>, <<"a">>, <<".", "b">>, <<"a", ".">>,
      <<".", ".">>, <<"a", ".", "b", ".", "c">>, undefinedStr }
ExtMimes == {"application/pdf", "text/plain"}

ExtBodies ==
    { Message("document", Part(TRUE, "m1", n, m)) : n \in ExtNames, m \in ExtMimes }
      \cup { Message("image", Part(TRUE, "m2", undefinedStr, m)) :
                 m \in {"image/png", "application/pdf"} }

\* values of Math.random() * RandDen: both ends of [0,1) and points between
PinRands == { r \in 0..(RandDen - 1) : r % RandStep = 0 } \cup {1, RandDen - 1}

InitInputs ==
    /\ variant \in PinVariants
    /\ \E c \in Configs : MONGODB_URI = c[1] /\ VERIFY_TOKEN = c[2]
    /\ cachedDb = FALSE
    /\ files = <<>>
    /\ blobs = <<>>
    /\ connects = NoConnects
    /\ now = 0
    /\ removed = {}
    /\ res = Idle

\* the webhook over the file names and MIME types
NextExt ==
    \/ \E body \in ExtBodies, dbUp \in BOOLEAN : PostWebhookPin(body, 0, dbUp, TRUE)
    \/ \E dbUp \in BOOLEAN : PostClearAll(dbUp)
    \/ EndRequest

SpecExt == InitInputs /\ [][NextExt]_vars

\* the webhook over the random values
NextPin ==
    \/ \E rnd \in PinRands, dbUp \in BOOLEAN :
          PostWebhookPin(Message("document", PdfPart), rnd, dbUp, TRUE)
    \/ \E dbUp \in BOOLEAN : PostClearAll(dbUp)
    \/ EndRequest

SpecPin == InitInputs /\ [][NextPin]_vars

---------------------------------------------------------------------------
(* Properties *)

Docs(fs) == { fs[i] : i \in 1..Len(fs) }

\* C1: in every reachable state of a PIN server, no two documents that are
\* in the collection at the same time carry the same pin.
UniqueLivePins ==
    variant \in PinVariants =>
        \A i, j \in 1..Len(files) : i # j => files[i].pin # files[j].pin

\* C2: a lookup of a code whose binding was created at T resolves to that
\* binding at every time < T + TTL and is answered 404 at every time
\* >= T + TTL.  Stated for the lookups the database answered and for codes
\* that one document carries, so that a violation is one of the TTL rule.
TtlLookupExact ==
    (res.route = "download" /\ res.err # "db") =>
        \A i \in 1..Len(files) :
            (files[i].pin = res.pin
               /\ \A j \in 1..Len(files) : j # i => files[j].pin # res.pin)
            => /\ now < files[i].createdAt + TTL => res.found = files[i]
               /\ now >= files[i].createdAt + TTL => res.status = 404

\* C3: once a document has been deleted (TTL monitor or clear-all), no
\* route streams its media, unless a live document references that media
\* (checked for the media ids in Watched).
RemovedNeverStreamed ==
    res.stream =>
        \/ res.media \notin removed
        \/ \E i \in 1..Len(files) : files[i].whatsapp_id = res.media

UnknownCodeNotFound ==
    (res.route = "download" /\ findOne(files, res.pin) = NoDoc)
        => res.status = 404 /\ res.calls = 0

\* C5 as amended: a download of a code without a live binding gets 404
\* when connectToDatabase and findOne succeed and 500 when one of them
\* throws; on both paths the handler calls the media platform zero times.
UnknownCodeNoUpstream ==
    (res.route = "download" /\ findOne(files, res.pin) = NoDoc)
        => /\ res.calls = 0
           /\ ~res.stream
           /\ res.err = "db" => res.status = 500
           /\ res.err # "db" => res.status = 404 /\ res.err = "none"

UnknownCodeAnswered ==
    /\ res.route = "download" /\ res.status = 404
    /\ Len(files) > 0
    /\ res.pin \notin Pins(files)

\* C6: a webhook never stores a document whose pin a live document carries.
AllocateNeverCollides ==
    [][(res'.route = "postWebhook" /\ res'.created /\ variant \in PinVariants)
          => res'.sentPin \notin Pins(files)]_vars

\* C7: when the media-id lookup or the fetch fails, the response is 500,
\* which is not the not-found status, the collection is unchanged and the
\* code still resolves to the same document.
UpstreamFailureKeepsBinding ==
    [][(res'.route \in {"download", "proxy"} /\ res'.err \in {"lookup", "fetch"})
          => /\ res'.status = 500
             /\ res'.status # downloadStatus("notfound")
             /\ ~res'.stream
             /\ files' = files
             /\ res'.route = "download"
                  => res'.found # NoDoc /\ findOne(files', res'.pin) = res'.found]_vars

UpstreamFailedDownload ==
    /\ res.route = "download" /\ res.err \in {"lookup", "fetch"}
    /\ res.found \in Docs(files)

\* C8 as claimed: every streamed response carries the stored mime_type of
\* the binding served and the file name pin + extension, on both routes.
StreamHeadersEveryRoute ==
    res.stream =>
        \A i \in 1..Len(files) :
            (IF res.route = "download" THEN files[i] = res.found
             ELSE files[i].whatsapp_id = res.media)
            => /\ res.ctype = files[i].mime_type
               /\ res.fname = files[i].pin \o files[i].extension

\* C8 as amended: every streamed /download/:pin response carries the stored
\* mime_type of the document found and the file name pin + extension; a
\* streamed /api/proxy/:mediaId response carries the MIME type the platform
\* reports and the fixed name whatsapp_doc.pdf (index.js) or no file name
\* (part_002).
DownloadHeaders ==
    /\ (res.route = "download" /\ res.stream) =>
          /\ res.found \in Docs(files)
          /\ res.ctype = res.found.mime_type
          /\ res.ctype # undefined
          /\ res.fname = res.found.pin \o res.found.extension
    /\ (res.route = "proxy" /\ res.stream) =>
          /\ res.fname = proxyName(variant)
          /\ res.ctype = platformMime(res.media)

StreamedJpg ==
    /\ res.route = "download" /\ res.stream
    /\ res.found.extension = <<".", "j", "p", "g">>
    /\ res.fname = res.pin \o <<".", "j", "p", "g">>

\* C9 as claimed: every document or image notification that is processed
\* without an exception adds exactly one document, and no other step adds one.
OneBindingPerMedia ==
    [][IF res'.route = "postWebhook" /\ res'.err = "none"
          /\ res'.msgType \in MediaTypes
       THEN Len(files') = Len(files) + 1
       ELSE Len(files') <= Len(files)]_vars

\* C9 as amended: a notification processed without an exception adds
\* exactly one document when it carries a document or an image (PIN
\* servers) or a document (proxy servers, which skip images); no other step
\* adds a document, and the Blob copy stores blobs and never a document.
OneBindingPerHandledMedia ==
    [][IF /\ res'.route = "postWebhook" /\ res'.err = "none"
          /\ IF variant \in PinVariants THEN res'.msgType \in MediaTypes
             ELSE variant \in ProxyVariants /\ res'.msgType = "document"
       THEN /\ Len(files') = Len(files) + 1
            /\ SubSeq(files', 1, Len(files)) = files
            /\ res'.created
       ELSE /\ Len(files') <= Len(files)
            /\ Docs(files') \subseteq Docs(files)]_vars

ImageBindingCreated ==
    /\ res.route = "postWebhook" /\ res.created /\ res.msgType = "image"
    /\ Len(files) = 2
    /\ files[2].extension = <<".", "j", "p", "g">>

\* C10: no document in the collection lacks whatsapp_id.
NoMissingMediaId ==
    \A i \in 1..Len(files) : files[i].whatsapp_id # undefined

---------------------------------------------------------------------------
\* C11: clear-all leaves the store with no bindings and never raises an
\* error, twice in a row and on an empty store too.  As the claim states
\* it: after every POST /api/clear-all the store is empty and the handler
\* has answered with its redirect.
ClearAllEmptiesQuietly ==
    res.route = "clearAll" =>
        /\ files = <<>>
        /\ res.err = "none"
        /\ res.status = 302

---------------------------------------------------------------------------
\* C12: no operation changes a field of an existing binding.  Every step
\* leaves the stored documents as they are, or appends one new document
\* behind them (a webhook), or deletes all of them (clear-all), or deletes
\* one that is due under the TTL index (the TTL monitor); the documents
\* that stay keep every field and their order.
BindingsImmutable ==
    [][ \/ files' = files
        \/ /\ res'.route = "postWebhook" /\ res'.created
           /\ Len(files') = Len(files) + 1
           /\ SubSeq(files', 1, Len(files)) = files
        \/ /\ res'.route = "clearAll"
           /\ files' = <<>>
        \/ /\ res' = res
           /\ \E i \in 1..Len(files) :
                 expired(files[i], now) /\ files' = SelectSeqNot(files, i)
      ]_vars

\* a binding created earlier has been downloaded, next to a second one
DownloadedOldBinding ==
    /\ Len(files) = 2
    /\ res.route = "download" /\ res.stream
    /\ res.found = files[1]
    /\ files[1].createdAt < now

---------------------------------------------------------------------------
\* C13: the listing (dashboard and /api/files) returns the bindings of the
\* store ordered by createdAt from newest to oldest and changes nothing.
\* Every listing step leaves the collection as it was; when it answers 200
\* the listed documents are exactly the stored ones, each as often as it
\* is stored, and no listed document is older than one listed after it.
ListingNewestFirst ==
    [][ res'.route \in {"dashboard", "apiFiles"} =>
          /\ files' = files
          /\ res'.status = 200 =>
               /\ Len(res'.listed) = Len(files)
               /\ \A d \in Docs(files) \cup Docs(res'.listed) :
                     Cardinality({ i \in 1..Len(files) : files[i] = d })
                       = Cardinality({ i \in 1..Len(res'.listed) : res'.listed[i] = d })
               /\ \A i, j \in 1..Len(res'.listed) :
                     i < j => res'.listed[i].createdAt >= res'.listed[j].createdAt
      ]_vars

\* two bindings of different age have been listed, the newer one first
ListedTwoAges ==
    /\ res.route \in {"dashboard", "apiFiles"} /\ res.status = 200
    /\ Len(res.listed) = 2
    /\ res.listed[1].createdAt > res.listed[2].createdAt
    /\ res.listed # files

---------------------------------------------------------------------------
Pdf == <<".", "p", "d", "f">>
Jpg == <<".", "j", "p", "g">>
Bin == <<".", "b", "i", "n">>

\* the file name ends in a "." followed by at least one character, the "."
\* not being its first character
HasSuffix(name) == LastDot(name) > 1 /\ LastDot(name) < Len(name)

\* the document the webhook has just stored
Created == files[Len(files)]

\* C14, as the claim states it: for every combination of message type,
\* MIME type and file name the stored extension is .pdf for application/pdf,
\* otherwise the suffix of the file name when it has one, otherwise .bin.
ExtensionMimeThenSuffix ==
    res.route = "postWebhook" /\ res.created =>
        Created.extension =
            IF Created.mime_type = "application/pdf" THEN Pdf
            ELSE IF HasSuffix(Created.filename)
                 THEN SubSeq(Created.filename, LastDot(Created.filename),
                             Len(Created.filename))
                 ELSE Bin

\* C14, amended: an image is stored with .jpg whatever its MIME type; a
\* document of MIME type application/pdf with .pdf; any other document
\* whose file name has no "." with .bin; any other document whose file name
\* has a "." with the end of the name from its last "." on, which is the
\* empty string when that "." is the first character of the name or the
\* name is "..", and a lone "." when the name ends with it.
ExtensionByTypeMimeName ==
    res.route = "postWebhook" /\ res.created =>
        LET ext == Created.extension
            name == Created.filename
        IN  IF res.msgType = "image" THEN ext = Jpg
            ELSE IF Created.mime_type = "application/pdf" THEN ext = Pdf
            ELSE IF \A i \in 1..Len(name) : name[i] # "." THEN ext = Bin
            ELSE /\ \E k \in 0..Len(name) : ext = SubSeq(name, k + 1, Len(name))
                 /\ ext # <<>> => /\ ext[1] = "."
                                  /\ \A j \in 2..Len(ext) : ext[j] # "."
                 /\ ext = <<>> <=> (LastDot(name) = 1 \/ name = <<".", ".">>)

\* a document named ".b" of another MIME type has been stored with the
\* empty extension
StoredDotfile ==
    /\ res.route = "postWebhook" /\ res.created /\ res.msgType = "document"
    /\ Created.filename = <<".", "b">>
    /\ Created.mime_type = "text/plain"
    /\ Created.extension = <<>>

---------------------------------------------------------------------------
DigitValue(c) == CHOOSE d \in 0..9 : Digit(d) = c

IsDigit(c) == \E d \in 0..9 : Digit(d) = c

\* C15: every code generatePin produces is a string of exactly 4 decimal
\* digits whose value lies in 1000..9999: every stored pin and every pin
\* sent to the user.
PinFourDigits ==
    \A pin \in Pins(files) \cup (IF res.sent = "pin" THEN {res.sentPin} ELSE {}) :
        /\ Len(pin) = 4
        /\ \A i \in 1..4 : IsDigit(pin[i])
        /\ LET value == 1000 * DigitValue(pin[1]) + 100 * DigitValue(pin[2])
                          + 10 * DigitValue(pin[3]) + DigitValue(pin[4])
           IN value >= 1000 /\ value <= 9999

\* the codes of both ends of the random range are in the store
StoredLowestAndHighestPin ==
    /\ <<"1", "0", "0", "0">> \in Pins(files)
    /\ <<"9", "9", "9", "9">> \in Pins(files)
    /\ res.sent = "pin"

---------------------------------------------------------------------------
\* C16: every POST /webhook whose body has an object field is answered
\* with 200, whatever happens during processing.
WebhookAlways200 ==
    res.route = "postWebhook" /\ res.object => res.status = 200

---------------------------------------------------------------------------
\* C17: when the byte stream fails after the response has started, the
\* response is aborted; the caller is not left with part of the file under
\* a success status in a response that was never aborted.
BrokenStreamAborted ==
    res.stream /\ res.body # "complete" => res.body = "aborted"

\* C18: every download request receives a response (stream, not-found or
\* error), also when the media platform never answers a call: no request
\* for a file ends with the handler waiting and nothing sent.
DownloadAlwaysAnswered ==
    res.route \in {"download", "proxy"} => res.status # 0

\* C19: a failure to connect to or to query the database never leaves a
\* route handler as an uncaught exception: the handler has sent a response.
StoreErrorsAnswered ==
    res.err = "db" => res.status # 0

\* C20: no handler that fetches media holds the complete file in memory:
\* what it buffers stays within the stream's window whatever the file size.
ConstantMemory ==
    res.peak <= StreamWindow

---------------------------------------------------------------------------
\* position of the first event e in a handler's order, 0 when it is absent
Pos(order, e) ==
    IF \E i \in 1..Len(order) : order[i] = e
    THEN CHOOSE i \in 1..Len(order) :
            order[i] = e /\ \A j \in 1..(i-1) : order[j] # e
    ELSE 0

\* a document or image notification handled by the ack-last copy
AckLastMedia ==
    /\ variant = "pinAckLast"
    /\ res.route = "postWebhook" /\ res.object
    /\ res.msgType \in MediaTypes

\* C21, as the claim states it: in the ack-last copy the 200 to a document
\* or image notification is sent only after the binding has been persisted
\* and the PIN reply attempted.
AckOnlyAfterPersisted ==
    AckLastMedia /\ res.status = 200 =>
        /\ res.created
        /\ Pos(res.order, "create") > 0
        /\ Pos(res.order, "create") < Pos(res.order, "send")
        /\ Pos(res.order, "send") < Pos(res.order, "respond")

\* C21, amended: the 200 is the handler's last act, sent once the store
\* write has settled.  When the write succeeded the binding is in the store
\* and the PIN reply was attempted before the 200; otherwise an exception
\* was caught, nothing was written and no reply attempted, and the 200
\* comes from the catch block.
AckAfterWriteSettled ==
    AckLastMedia /\ res.status = 200 =>
        /\ res.order[Len(res.order)] = "respond"
        /\ Pos(res.order, "respond") = Len(res.order)
        /\ IF res.created
           THEN /\ res.order = <<"create", "send", "respond">>
                /\ Len(files) > 0 /\ files[Len(files)].pin = res.sentPin
           ELSE /\ res.err \in {"parse", "db", "fields"}
                /\ res.order = <<"respond">>
                /\ res.sent = "none"

\* the ack-last copy has stored a document, attempted the reply and answered
AckLastStored ==
    /\ AckLastMedia /\ res.status = 200 /\ res.created
    /\ res.order = <<"create", "send", "respond">>

---------------------------------------------------------------------------
\* C22: the reply that tells the sender their PIN is sent only after the
\* binding with that PIN has been written: whenever a PIN has been sent,
\* the handler created a document, that document carries the PIN sent and
\* its creation precedes the send; a failed write sends no PIN.
PinSentOnlyAfterWrite ==
    /\ res.sent = "pin" =>
          /\ res.created
          /\ Len(files) > 0 /\ files[Len(files)].pin = res.sentPin
          /\ Pos(res.order, "create") > 0
          /\ Pos(res.order, "create") < Pos(res.order, "send")
    /\ res.route = "postWebhook" /\ res.err = "db" =>
          res.sent # "pin" /\ res.sentPin = undefinedStr

\* a PIN server's write has failed on a document notification
WriteFailedNoPin ==
    /\ variant \in PinVariants
    /\ res.route = "postWebhook" /\ res.err = "db" /\ res.msgType = "document"
    /\ res.sent = "none"
    /\ cachedDb

---------------------------------------------------------------------------
\* C23: for every live binding, a download with the PIN replied to its
\* sender streams the media of that binding: whenever a download streams,
\* every unexpired document that carries the requested PIN is the one whose
\* whatsapp_id was streamed.
PinStreamsOwnMedia ==
    res.route = "download" /\ res.stream =>
        \A i \in 1..Len(files) :
            (files[i].pin = res.pin /\ ~expired(files[i], now))
               => res.media = files[i].whatsapp_id

---------------------------------------------------------------------------
\* C24: every POST /webhook request receives exactly one response on every
\* path and for every payload shape: never zero, never two.
WebhookExactlyOneResponse ==
    res.route = "postWebhook" => res.responses = 1

---------------------------------------------------------------------------
\* C25: GET /webhook answers with the challenge only when hub.mode is
\* subscribe and hub.verify_token equals the configured secret; without a
\* configured VERIFY_TOKEN every request is refused.
HandshakeNeedsSecret ==
    res.route = "getWebhook" /\ res.status = 200 =>
        /\ res.mode = "subscribe"
        /\ VERIFY_TOKEN # undefined
        /\ res.token = VERIFY_TOKEN

\* C26: connectToDatabase opens at most one connection per process, so
\* mongoose.connect is called again only after a call of it has failed,
\* however the requests that call connectToDatabase interleave.
ConnectCalledOnce == connects.calls <= connects.fails + 1

\* C27: a failure to send the reply never undoes or blocks ingestion.  When
\* the reply for a stored file (the PIN, "Received", "Saved") was attempted
\* and not delivered, the binding is in the store and resolvable, and the
\* handler ends as it does when the send succeeds: without an error, with
\* its one response, status 200.
SendFailureKeepsBinding ==
    res.route = "postWebhook" /\ res.sent \in {"pin", "received", "saved"}
                              /\ ~res.delivered =>
        /\ res.err = "none"
        /\ res.status = 200
        /\ res.responses = 1
        /\ CASE res.sent = "pin" ->
                   /\ res.created
                   /\ Len(files) > 0
                   /\ files[Len(files)].pin = res.sentPin
                   /\ findOne(files, res.sentPin) # NoDoc
             [] res.sent = "received" ->
                   /\ res.created
                   /\ Len(files) > 0
                   /\ files[Len(files)].createdAt = now
             [] OTHER -> Len(blobs) > 0

SendFailedAfterCreate ==
    /\ res.route = "postWebhook"
    /\ res.sent = "pin"
    /\ res.created
    /\ ~res.delivered
    /\ findOne(files, res.sentPin) # NoDoc

=============================================================================
